---- MODULE Spec2Model ----
(* A state-machine model of FolderSyncer (src/main.py): the scheduling loop    *)
(* run(), one cycle sync_directories() made of the propagate walk              *)
(* update_items() and the prune walk remove_deleted_items(), and the change    *)
(* test is_modified() / md5sum().  The two directory trees are functions from  *)
(* relative paths to nodes; every loop iteration of a walk is one step.        *)
EXTENDS Integers, Sequences, FiniteSets, TLC

(* ------------------------------------------------------------------------ *)
(* Bounds of the model                                                        *)
(* ------------------------------------------------------------------------ *)
\* modification times range over 0..MaxTime; a copy stamps the latest one
MaxTime == 2
\* file contents are byte strings of length 1..MaxLen
MaxLen == 2
\* the while-True loop of run() is followed for MaxCycles cycles
MaxCycles == 2

Names == {"a", "b"}
Root == << >>
\* every relative path the walks can touch (one level below the initial trees:
\* shutil.copy onto a directory writes inside it)
Paths == UNION {[1..n -> Names] : n \in 0..3}
\* the relative paths the initial trees may populate
InitPaths == {<<"a">>, <<"b">>, <<"a", "a">>, <<"b", "a">>}

Times == 0..MaxTime
Now == MaxTime
SrcTime == 1
MaxEnvSteps == 1
Contents == {<<1>>, <<2>>} \cup {[i \in 1..n |-> 1] : n \in 2..MaxLen}
SrcContents == {<<1>>}

NoNode == [kind |-> "none", data |-> << >>, mtime |-> 0]
DirNode == [kind |-> "dir", data |-> << >>, mtime |-> 0]
FileNode(d, t) == [kind |-> "file", data |-> d, mtime |-> t]

VARIABLES
  src,        \* the source tree: Paths -> node
  rep,        \* the replica tree: Paths -> node
  pc,         \* position of run(): "loop", "propagate", "prune", "sleep", "stopped"
  stack,      \* the recursion of the current walk: frames [dir, items]
  log,        \* the events logged in the current cycle
  raised,     \* the exception that left sync_directories / run's loop, or "none"
  cycle,      \* number of cycles started
  unreadable, \* source paths whose open()/listdir() is denied (PermissionError)
  unsearchable, \* source directories whose entries cannot be stat'ed (no x bit)
  protected,  \* replica paths whose removal is denied (PermissionError)
  diskFull,   \* writes to the replica volume fail with OSError(ENOSPC)
  repUnsearchable, \* replica directories whose entries cannot be stat'ed
  envSteps,   \* changes another process has made to the trees during walks
  rep0,       \* history: the replica tree when the current cycle started
  failed      \* history: some filesystem operation of the current cycle raised

vars == <<src, rep, pc, stack, log, raised, cycle, unreadable, unsearchable,
          protected, diskFull, repUnsearchable, envSteps, rep0, failed>>

(* ------------------------------------------------------------------------ *)
(* os.path / os / shutil primitives                                           *)
(* ------------------------------------------------------------------------ *)
Parent(p) == SubSeq(p, 1, Len(p) - 1)
Join(d, n) == Append(d, n)
IsPrefix(p, q) == Len(p) <= Len(q) /\ SubSeq(q, 1, Len(p)) = p

Exists(fs, p) == p \in Paths /\ fs[p].kind # "none"
IsDir(fs, p) == p \in Paths /\ fs[p].kind = "dir"
IsFile(fs, p) == p \in Paths /\ fs[p].kind = "file"
GetSize(fs, p) == Len(fs[p].data)
GetMTime(fs, p) == fs[p].mtime

\* the tree os.path.exists / isdir / isfile report: they answer False for a path
\* whose os.stat is denied, that is for everything below a directory in hidden
Visible(fs, hidden) ==
  [p \in Paths |->
     IF \E d \in hidden : d # p /\ IsPrefix(d, p) THEN NoNode ELSE fs[p]]

\* os.stat of p is denied, which os.path.exists / isdir / isfile swallow
StatDenied(fs, hidden, p) == \E d \in hidden : d # p /\ IsPrefix(d, p)

\* os.listdir(d) of an existing directory: the names of its entries
ListDir(fs, d) == {n \in Names : Exists(fs, Join(d, n))}

\* mutant: listing a missing path or a regular file yields no entries
ListDirNeverFails(fs, d, denied) == "ok"

\* the error os.listdir(d) raises, or "ok"
ListDirError(fs, d, denied) ==
  IF ~Exists(fs, d) THEN "FileNotFoundError"
  ELSE IF ~IsDir(fs, d) THEN "NotADirectoryError"
  ELSE IF d \in denied THEN "PermissionError"
  ELSE "ok"

\* proper ancestors of p, the root included
Ancestors(p) == {SubSeq(p, 1, k) : k \in 0..(Len(p) - 1)}

\* the error os.makedirs(p) raises, or "ok"
MakedirsError(fs, p, full) ==
  IF \E q \in Ancestors(p) : IsFile(fs, q) THEN "NotADirectoryError"
  ELSE IF Exists(fs, p) THEN "FileExistsError"
  ELSE IF full THEN "OSError"
  ELSE "ok"

\* os.makedirs(p): p and every missing ancestor become directories
Makedirs(fs, p) ==
  [q \in Paths |-> IF IsPrefix(q, p) /\ ~Exists(fs, q) THEN DirNode ELSE fs[q]]

\* shutil.rmtree(p): p and its whole subtree disappear
Rmtree(fs, p) == [q \in Paths |-> IF IsPrefix(p, q) THEN NoNode ELSE fs[q]]

\* os.remove(p)
Remove(fs, p) == [fs EXCEPT ![p] = NoNode]

(* ------------------------------------------------------------------------ *)
(* ChangeDetector: is_modified and md5sum                                     *)
(* ------------------------------------------------------------------------ *)
None == -1

\* the digest of a byte string, folded byte by byte as hashlib's update() does
\* (a stand-in for MD5 that is collision-free on the bounded contents)
RECURSIVE Digest(_)
Digest(data) ==
  IF data = << >> THEN 0
  ELSE Digest(SubSeq(data, 1, Len(data) - 1)) * 4 + data[Len(data)] + 1

\* md5sum(fname): the digest, or None when open() raises OSError (a missing
\* path, a directory, a denied file)
Md5sum(fs, p, denied) ==
  IF ~IsFile(fs, p) \/ p \in denied THEN None ELSE Digest(fs[p].data)

\* is_modified(source_item, replica_item) for the relative path p: the set of
\* values it can return.  st_size and st_mtime of a directory depend on the
\* filesystem, so against a replica directory either answer is possible.
IsModified(sfs, rfs, p) ==
  IF ~Exists(rfs, p) THEN {TRUE}
  ELSE IF IsDir(rfs, p) THEN BOOLEAN
  ELSE IF ~(GetSize(sfs, p) # GetSize(rfs, p)) THEN {TRUE}
  ELSE {GetMTime(sfs, p) > GetMTime(rfs, p)}

\* mutant: the checksum gate left out, is_modified alone decides
NeedsCopyNoChecksum(sfs, rfs, p, denied) == TRUE

\* the second gate of update_items (line 81)
NeedsCopy(sfs, rfs, p, denied) ==
  ~Exists(rfs, p) \/ Md5sum(sfs, p, denied) # Md5sum(rfs, p, {})

\* the errors the md5sum calls of line 81 log (lines 63-64): none are made when
\* the replica path does not exist
Md5Events(sfs, rfs, p, denied) ==
  IF ~Exists(rfs, p) THEN << >>
  ELSE (IF Md5sum(sfs, p, denied) = None THEN <<[ev |-> "error", path |-> "md5sum"]>> ELSE << >>)
       \o (IF Md5sum(rfs, p, {}) = None THEN <<[ev |-> "error", path |-> "md5sum"]>> ELSE << >>)

\* shutil.copy(src, dst): a directory dst means dst/basename(src)
CopyTarget(rfs, p) == IF IsDir(rfs, p) THEN Join(p, p[Len(p)]) ELSE p

\* the error shutil.copy raises, or "ok"
CopyError(sfs, rfs, p, denied, full) ==
  LET t == CopyTarget(rfs, p) IN
  IF p \in denied THEN "PermissionError"
  ELSE IF ~IsFile(sfs, p) THEN "FileNotFoundError"
  ELSE IF \E q \in Ancestors(t) : IsFile(rfs, q) THEN "NotADirectoryError"
  ELSE IF \E q \in Ancestors(t) : ~Exists(rfs, q) THEN "FileNotFoundError"
  ELSE IF IsDir(rfs, t) THEN "IsADirectoryError"
  ELSE IF full THEN "OSError"
  ELSE "ok"

\* the replica trees shutil.copy can leave behind.  On success the target holds
\* the source bytes and a fresh mtime.  When the volume is full the target was
\* opened for writing before the write failed: it is left as it was or empty.
CopyResults(sfs, rfs, p, denied, full) ==
  LET t == CopyTarget(rfs, p)
      e == CopyError(sfs, rfs, p, denied, full)
  IN IF e = "ok" THEN {[rfs EXCEPT ![t] = FileNode(sfs[p].data, Now)]}
     ELSE IF e = "OSError" THEN {rfs, [rfs EXCEPT ![t] = FileNode(<< >>, Now)]}
     ELSE {rfs}

(* ------------------------------------------------------------------------ *)
(* Reconciler, propagate: one iteration of update_items' for loop            *)
(* ------------------------------------------------------------------------ *)
Event(e, p) == [ev |-> e, path |-> p]

\* mutant: the PermissionError clause left out
UpdateCatchesNotFoundOnly(e) == e = "FileNotFoundError"

\* the except clauses of update_items (lines 84-87)
UpdateCatches(e) == e \in {"FileNotFoundError", "PermissionError"}

Outcome(fs, evs, e, push, fail) ==
  [rep |-> fs, events |-> evs, err |-> e, push |-> push, fail |-> fail]

\* lines 72-77: the source item is a directory
UpdateDir(sfs, rfs, p, denied, full) ==
  LET mk == IF Exists(rfs, p) THEN "ok" ELSE MakedirsError(rfs, p, full)
      r1 == IF Exists(rfs, p) THEN rfs ELSE Makedirs(rfs, p)
      e1 == IF Exists(rfs, p) THEN << >> ELSE <<Event("created", p)>>
      ls == ListDirError(sfs, p, denied)
  IN IF mk # "ok" THEN {Outcome(rfs, << >>, mk, FALSE, TRUE)}
     ELSE IF ls # "ok" THEN {Outcome(r1, e1, ls, FALSE, TRUE)}
     ELSE {Outcome(r1, e1, "ok", TRUE, FALSE)}

\* lines 79-83: the source item is a regular file
UpdateFile(sfs, rfs, p, denied, full) ==
  UNION {
    LET md == IF m THEN Md5Events(sfs, rfs, p, denied) ELSE << >> IN
    IF m /\ NeedsCopy(sfs, rfs, p, denied)
    THEN LET e == CopyError(sfs, rfs, p, denied, full) IN
         { Outcome(r1,
                   IF e = "ok"
                   THEN md \o <<Event(IF ~Exists(r1, p) THEN "copied" ELSE "updated", p)>>
                   ELSE md,
                   e, FALSE, e # "ok" \/ md # << >>)
           : r1 \in CopyResults(sfs, rfs, p, denied, full) }
    ELSE { Outcome(rfs, md, "ok", FALSE, md # << >>) }
    : m \in IsModified(sfs, rfs, p) }

\* the body of the for loop of update_items for the entry at relative path p
UpdateOutcomes(sfs, rfs, p, denied, full) ==
  IF IsDir(sfs, p) THEN UpdateDir(sfs, rfs, p, denied, full)
  ELSE IF IsFile(sfs, p) THEN UpdateFile(sfs, rfs, p, denied, full)
  ELSE {Outcome(rfs, << >>, "ok", FALSE, FALSE)}

\* is_modified when os.stat of the replica path may be denied: line 40 asks
\* os.path.exists, which swallows the error and answers False
IsModifiedStat(sfs, rfs, p, rhidden) ==
  IF StatDenied(rfs, rhidden, p) THEN {TRUE} ELSE IsModified(sfs, rfs, p)

\* the loop body of update_items when os.stat of the replica path may be
\* denied: os.path.exists(r_item) is False (lines 73, 81), and os.makedirs /
\* shutil.copy below the unsearchable directory raise PermissionError
UpdateOutcomesStat(sfs, rfs, p, denied, full, rhidden) ==
  IF ~StatDenied(rfs, rhidden, p) THEN UpdateOutcomes(sfs, rfs, p, denied, full)
  ELSE IF IsDir(sfs, p) THEN {Outcome(rfs, << >>, "PermissionError", FALSE, TRUE)}
  ELSE IF IsFile(sfs, p)
  THEN { IF m THEN Outcome(rfs, << >>, "PermissionError", FALSE, TRUE)
              ELSE Outcome(rfs, << >>, "ok", FALSE, TRUE)
         : m \in IsModifiedStat(sfs, rfs, p, rhidden) }
  ELSE {Outcome(rfs, << >>, "ok", FALSE, FALSE)}

Frame(d, fs) == [dir |-> d, items |-> ListDir(fs, d)]

(* ------------------------------------------------------------------------ *)
(* Reconciler, prune: one iteration of remove_deleted_items' for loop        *)
(* ------------------------------------------------------------------------ *)
\* the entries of the subtree at p
Subtree(fs, p) == {q \in Paths : IsPrefix(p, q) /\ Exists(fs, q)}

\* the error shutil.rmtree(p) / os.remove(p) raises, or "ok"
RemoveError(fs, p, prot) ==
  IF Subtree(fs, p) \cap prot # {} THEN "PermissionError" ELSE "ok"

\* what a failed rmtree can leave: nothing removed, or every entry removed that
\* neither is denied nor holds a denied entry
PartialRmtree(fs, p, prot) ==
  { fs,
    [q \in Paths |->
       IF IsPrefix(p, q) /\ Subtree(fs, q) \cap prot = {} THEN NoNode ELSE fs[q]] }

\* mutant: no recursive call for a replica directory whose source exists
RemoveOutcomesNoRecursion(sfs, rfs, p, prot) ==
  IF IsDir(rfs, p) THEN
    IF ~Exists(sfs, p)
    THEN {Outcome(Rmtree(rfs, p), <<Event("dir_deleted", p)>>, "ok", FALSE, FALSE)}
    ELSE {Outcome(rfs, << >>, "ok", FALSE, FALSE)}
  ELSE IF IsFile(rfs, p) /\ ~Exists(sfs, p)
  THEN {Outcome(Remove(rfs, p), <<Event("file_deleted", p)>>, "ok", FALSE, FALSE)}
  ELSE {Outcome(rfs, << >>, "ok", FALSE, FALSE)}

\* the body of the for loop of remove_deleted_items (lines 92-104) for the
\* replica entry at relative path p
RemoveOutcomes(sfs, rfs, p, prot) ==
  IF IsDir(rfs, p) THEN
    IF ~Exists(sfs, p) THEN
      IF RemoveError(rfs, p, prot) # "ok"
      THEN {Outcome(r1, << >>, "PermissionError", FALSE, TRUE)
              : r1 \in PartialRmtree(rfs, p, prot)}
      ELSE {Outcome(Rmtree(rfs, p), <<Event("dir_deleted", p)>>, "ok", FALSE, FALSE)}
    ELSE {Outcome(rfs, << >>, "ok", TRUE, FALSE)}
  ELSE IF IsFile(rfs, p) /\ ~Exists(sfs, p) THEN
    IF RemoveError(rfs, p, prot) # "ok"
    THEN {Outcome(rfs, << >>, "PermissionError", FALSE, TRUE)}
    ELSE {Outcome(Remove(rfs, p), <<Event("file_deleted", p)>>, "ok", FALSE, FALSE)}
  ELSE {Outcome(rfs, << >>, "ok", FALSE, FALSE)}

\* the loop body of remove_deleted_items when os.stat of the replica path may
\* be denied: os.path.isdir and os.path.isfile (lines 95, 101) are False for
\* an entry of an unsearchable directory, and such entries cannot be unlinked
RemoveOutcomesStat(sfs, rfs, p, prot, rhidden) ==
  IF StatDenied(rfs, rhidden, p) THEN {Outcome(rfs, << >>, "ok", FALSE, TRUE)}
  ELSE RemoveOutcomes(sfs, rfs, p,
         prot \cup {q \in Paths : Exists(rfs, q) /\ StatDenied(rfs, rhidden, q)})

(* ------------------------------------------------------------------------ *)
(* Initial states                                                             *)
(* ------------------------------------------------------------------------ *)
\* an assignment of nodes to InitPaths is a tree when every entry's parent is
\* a directory
WellFormed(f) ==
  \A p \in InitPaths :
    (f[p].kind # "none" /\ Len(p) > 1) => f[Parent(p)].kind = "dir"

MkTree(root, f) ==
  [p \in Paths |-> IF p = Root THEN root
                   ELSE IF p \in InitPaths THEN f[p] ELSE NoNode]

Empty == [p \in InitPaths |-> NoNode]

SrcNodes == {NoNode, DirNode} \cup {FileNode(d, SrcTime) : d \in SrcContents}
RepNodes == {NoNode, DirNode} \cup {FileNode(d, t) : d \in Contents, t \in Times}

\* source trees: a directory tree, or a source root that is missing or a file
SrcTrees ==
  {MkTree(DirNode, f) : f \in {g \in [InitPaths -> SrcNodes] : WellFormed(g)}}
    \cup {MkTree(NoNode, Empty), MkTree(FileNode(<<1>>, SrcTime), Empty)}

\* replica trees: a directory tree, or no replica root yet
RepTrees ==
  {MkTree(DirNode, f) : f \in {g \in [InitPaths -> RepNodes] : WellFormed(g)}}
    \cup {MkTree(NoNode, Empty)}

InitCommon ==
  /\ pc = "loop"
  /\ stack = << >>
  /\ log = << >>
  /\ raised = "none"
  /\ cycle = 0
  /\ rep0 = rep
  /\ failed = FALSE
  /\ envSteps = 0

\* the environment lets every filesystem operation through
Init ==
  /\ src \in SrcTrees
  /\ rep \in RepTrees
  /\ unreadable = {}
  /\ unsearchable = {}
  /\ protected = {}
  /\ diskFull = FALSE
  /\ repUnsearchable = {}
  /\ InitCommon

(* ------------------------------------------------------------------------ *)
(* Actions                                                                    *)
(* ------------------------------------------------------------------------ *)
\* the environment: the faults it injects and the changes it has made
Faults == <<unreadable, unsearchable, protected, diskFull, repUnsearchable, envSteps>>

\* an exception leaves sync_directories: run()'s handlers (lines 22-35) sit
\* outside the while loop, so they log it and run() returns
Escape(e, evs) ==
  /\ pc' = "stopped"
  /\ raised' = e
  /\ stack' = << >>
  /\ log' = evs \o <<Event("error", e)>>

\* sync_directories, lines 114-120, up to the listing of the source root
SyncStart ==
  /\ pc = "loop"
  /\ cycle < MaxCycles
  /\ cycle' = cycle + 1
  /\ rep0' = rep
  /\ UNCHANGED <<src, Faults>>
  /\ LET e0 == IF IsDir(src, Root) THEN << >> ELSE <<Event("error", "SourceNotADirectory")>>
         mk == IF Exists(rep, Root) THEN "ok" ELSE MakedirsError(rep, Root, diskFull)
         ls == ListDirError(src, Root, unreadable)
     IN IF mk # "ok"
        THEN rep' = rep /\ failed' = TRUE /\ Escape(mk, e0)
        ELSE /\ rep' = (IF Exists(rep, Root) THEN rep ELSE Makedirs(rep, Root))
             /\ LET e1 == IF Exists(rep, Root) THEN e0
                          ELSE e0 \o <<Event("created", Root)>>
                IN IF ls # "ok"
                   THEN failed' = TRUE /\ Escape(ls, e1)
                   ELSE /\ failed' = FALSE
                        /\ pc' = "propagate"
                        /\ stack' = <<Frame(Root, src)>>
                        /\ log' = e1
                        /\ raised' = raised

\* mutant: the for loop does not advance
RestKeepsItem(st, n) == st

\* the recursion after one iteration of the for loop on top: that directory's
\* listing without the entry just handled (for item in os.listdir(...))
Rest(st, n) == <<[Head(st) EXCEPT !.items = @ \ {n}]>> \o Tail(st)

\* mutant: the mutating calls are given the source path as well
WriteBackBoth(o) == rep' = o.rep /\ src' = o.rep

\* the mutating calls of both walks (os.makedirs, shutil.copy, shutil.rmtree,
\* os.remove) are given r_item, a path below the replica root, only: the
\* iteration's effect lands in the replica tree and the source tree is not
\* written
WriteBack(o) == rep' = o.rep /\ src' = src

\* update_items: one entry of the directory on top of the recursion
UpdateItem ==
  /\ pc = "propagate"
  /\ stack # << >>
  /\ \E n \in Head(stack).items :
       LET p == Join(Head(stack).dir, n)
           rest == Rest(stack, n)
       IN \E o \in UpdateOutcomesStat(Visible(src, unsearchable), rep, p,
                                       unreadable, diskFull, repUnsearchable) :
            /\ WriteBack(o)
            /\ failed' = (failed \/ o.fail \/ StatDenied(src, unsearchable, p))
            /\ IF o.err = "ok"
               THEN /\ stack' = (IF o.push THEN <<Frame(p, src)>> \o rest ELSE rest)
                    /\ log' = log \o o.events
                    /\ UNCHANGED <<pc, raised>>
               ELSE IF UpdateCatches(o.err)
               THEN /\ stack' = rest
                    /\ log' = log \o o.events \o <<Event("error", o.err)>>
                    /\ UNCHANGED <<pc, raised>>
               ELSE Escape(o.err, log \o o.events)
  /\ UNCHANGED <<cycle, Faults, rep0>>

\* update_items: the for loop of the directory on top is exhausted
UpdateReturn ==
  /\ pc = "propagate"
  /\ stack # << >>
  /\ Head(stack).items = {}
  /\ stack' = Tail(stack)
  /\ UNCHANGED <<src, rep, pc, log, raised, cycle, Faults, rep0, failed>>

\* mutant: remove_deleted_items is entered while update_items is still walking
PruneStartEarly ==
  /\ pc = "propagate"
  /\ pc' = "prune"
  /\ stack' = <<Frame(Root, rep)>>
  /\ UNCHANGED <<src, rep, log, raised, cycle, Faults, rep0, failed>>

\* sync_directories, line 121: remove_deleted_items(source, replica) lists the
\* replica root; a listing error is caught by its try (lines 106-111)
PruneStart ==
  /\ pc = "propagate"
  /\ stack = << >>
  /\ pc' = "prune"
  /\ LET ls == ListDirError(rep, Root, {})
     IN IF ls = "ok"
        THEN stack' = <<Frame(Root, rep)>> /\ UNCHANGED <<log, failed>>
        ELSE stack' = <<[dir |-> Root, items |-> {}]>>
               /\ log' = Append(log, Event("error", ls)) /\ failed' = TRUE
  /\ UNCHANGED <<src, rep, raised, cycle, Faults, rep0>>

\* remove_deleted_items: one entry of the replica directory on top; any OSError
\* ends this directory's loop (the try encloses the for)
RemoveItem ==
  /\ pc = "prune"
  /\ stack # << >>
  /\ \E n \in Head(stack).items :
       LET p == Join(Head(stack).dir, n)
           rest == Rest(stack, n)
       IN \E o \in RemoveOutcomesStat(Visible(src, unsearchable), rep, p,
                                       protected, repUnsearchable) :
            /\ WriteBack(o)
            /\ failed' = (failed \/ o.fail \/ StatDenied(src, unsearchable, p))
            /\ IF o.err = "ok"
               THEN /\ stack' = (IF o.push THEN <<Frame(p, rep)>> \o rest ELSE rest)
                    /\ log' = log \o o.events
               ELSE /\ stack' = Tail(stack)
                    /\ log' = log \o o.events \o <<Event("error", o.err)>>
  /\ UNCHANGED <<pc, raised, cycle, Faults, rep0>>

\* remove_deleted_items: the for loop of the directory on top is exhausted
RemoveReturn ==
  /\ pc = "prune"
  /\ stack # << >>
  /\ Head(stack).items = {}
  /\ stack' = Tail(stack)
  /\ UNCHANGED <<src, rep, pc, log, raised, cycle, Faults, rep0, failed>>

\* sync_directories returns to run(), which calls time.sleep (line 21)
SyncReturn ==
  /\ pc = "prune"
  /\ stack = << >>
  /\ pc' = "sleep"
  /\ UNCHANGED <<src, rep, stack, log, raised, cycle, Faults, rep0, failed>>

\* time.sleep returns: back to the top of the while loop (line 19)
Sleep ==
  /\ pc = "sleep"
  /\ pc' = "loop"
  /\ UNCHANGED <<src, rep, stack, log, raised, cycle, Faults, rep0, failed>>

\* the external interrupt: KeyboardInterrupt ends run() (lines 22-23)
Interrupt ==
  /\ pc # "stopped"
  /\ pc' = "stopped"
  /\ raised' = "KeyboardInterrupt"
  /\ stack' = << >>
  /\ UNCHANGED <<src, rep, log, cycle, Faults, rep0, failed>>

Next ==
  \/ SyncStart
  \/ UpdateItem
  \/ UpdateReturn
  \/ PruneStart
  \/ RemoveItem
  \/ RemoveReturn
  \/ SyncReturn
  \/ Sleep
  \/ Interrupt

Spec == Init /\ [][Next]_vars

(* ------------------------------------------------------------------------ *)
(* A second specification: the environment makes one operation fail          *)
(* ------------------------------------------------------------------------ *)
\* replica files of the fault runs carry the source's modification time
FaultRepNodes == {NoNode, DirNode} \cup {FileNode(d, SrcTime) : d \in Contents}
FaultRepTrees ==
  {MkTree(DirNode, f) : f \in {g \in [InitPaths -> FaultRepNodes] : WellFormed(g)}}
    \cup {MkTree(NoNode, Empty)}

\* at most one fault: a source entry that cannot be opened or listed (no r
\* bit), a source directory whose entries cannot be stat'ed (no x bit), a source
\* directory with neither bit, a replica entry that cannot be removed, a
\* full replica volume, or a replica directory whose entries cannot be stat'ed
\* (no x bit)
FaultKinds ==
  {"none", "unreadable", "unsearchable", "noaccess", "protected", "diskFull",
   "repUnsearchable"}

FaultInit ==
  /\ src \in SrcTrees
  /\ rep \in FaultRepTrees
  /\ \E k \in FaultKinds, p \in Paths :
       /\ k \in {"none", "diskFull"} => p = Root
       /\ k = "unreadable" => Exists(src, p)
       /\ k \in {"unsearchable", "noaccess"} => IsDir(src, p)
       /\ k = "protected" => (p \in InitPaths /\ Exists(rep, p))
       /\ k = "repUnsearchable" => (p \in InitPaths /\ IsDir(rep, p))
       /\ unreadable = (IF k \in {"unreadable", "noaccess"} THEN {p} ELSE {})
       /\ unsearchable = (IF k \in {"unsearchable", "noaccess"} THEN {p} ELSE {})
       /\ protected = (IF k = "protected" THEN {p} ELSE {})
       /\ diskFull = (k = "diskFull")
       /\ repUnsearchable = (IF k = "repUnsearchable" THEN {p} ELSE {})
  /\ InitCommon

FaultSpec == FaultInit /\ [][Next]_vars

(* ------------------------------------------------------------------------ *)
(* A third specification: another process changes the trees during the walks *)
(* ------------------------------------------------------------------------ *)
EnvPaths == InitPaths \cup {Root}

\* the trees one change by another process can make of fs: a directory
\* created, a file written, an entry deleted with all below it
EnvChange(fs) ==
  {[fs EXCEPT ![p] = DirNode] :
     p \in {q \in EnvPaths : ~Exists(fs, q) /\ (q = Root \/ IsDir(fs, Parent(q)))}}
  \cup
  {[fs EXCEPT ![p] = FileNode(<<2>>, Now)] :
     p \in {q \in EnvPaths : q # Root /\ IsDir(fs, Parent(q)) /\ ~IsDir(fs, q)}}
  \cup
  {Rmtree(fs, p) : p \in {q \in EnvPaths : Exists(fs, q)}}

\* another process changes the source or the replica between two steps of a
\* walk
EnvStep ==
  /\ pc \in {"propagate", "prune"}
  /\ envSteps < MaxEnvSteps
  /\ envSteps' = envSteps + 1
  /\ \/ src' \in EnvChange(src) /\ rep' = rep
     \/ rep' \in EnvChange(rep) /\ src' = src
  /\ UNCHANGED <<pc, stack, log, raised, cycle, unreadable, unsearchable,
                 protected, diskFull, repUnsearchable, rep0, failed>>

\* the steps of sync_directories once it has listed the source root
Walk ==
  \/ UpdateItem
  \/ UpdateReturn
  \/ PruneStart
  \/ RemoveItem
  \/ RemoveReturn
  \/ SyncReturn

\* the walks of the last cycle of the bound are the ones observed
EnvInit ==
  /\ src \in {t \in SrcTrees : IsDir(t, Root)}
  /\ rep \in {MkTree(DirNode, Empty), src}
  /\ unreadable = {}
  /\ unsearchable = {}
  /\ protected = {}
  /\ diskFull = FALSE
  /\ repUnsearchable = {}
  /\ envSteps = 0
  /\ pc = "loop"
  /\ stack = << >>
  /\ log = << >>
  /\ raised = "none"
  /\ cycle = MaxCycles - 1
  /\ rep0 = rep
  /\ failed = FALSE

EnvNext == Next \/ EnvStep

\* the interpreter keeps executing the walk it is in
EnvSpec == EnvInit /\ [][EnvNext]_vars /\ WF_vars(Walk)

(* ------------------------------------------------------------------------ *)
(* Properties                                                                 *)
(* ------------------------------------------------------------------------ *)
Logged(e) == \E i \in 1..Len(log) : log[i].ev = e
LoggedAt(e, p) == \E i \in 1..Len(log) : log[i] = Event(e, p)
MutationEvents == {"created", "copied", "updated", "dir_deleted", "file_deleted"}

\* a sync_directories call has returned to run()
Returned == pc = "sleep"

SamePaths == \A p \in Paths : Exists(rep, p) <=> Exists(src, p)
SameContent ==
  \A p \in Paths : IsFile(rep, p) => IsFile(src, p) /\ rep[p].data = src[p].data

\* C1: Convergence.  After one sync_directories call that returned with no
\* failed filesystem operation, the replica has exactly the source's relative
\* paths and every replica file has the bytes of the source file at its path.
C1_Convergence == (Returned /\ ~failed) => (SamePaths /\ SameContent)

\* C2: Idempotence.  A second sync_directories call, made after a first one has
\* returned and with nothing changed in between, leaves the replica as it found
\* it and logs no created / copied / updated / deleted event.
C2_Idempotence ==
  (Returned /\ cycle >= 2) =>
     (rep = rep0 /\ \A i \in 1..Len(log) : log[i].ev \notin MutationEvents)

\* C3: Deletion correctness.  After a sync_directories call that returned with
\* no failed filesystem operation, no replica entry is left at a relative path
\* that does not exist in the source (a replica-only directory is gone with its
\* whole subtree).
C3_DeletionCorrectness ==
  (Returned /\ ~failed) => \A p \in Paths : Exists(rep, p) => Exists(src, p)

\* C3 witness: a replica-only directory that held an entry was removed with it
C3_Witness ==
  /\ Returned /\ ~failed
  /\ \E p \in Paths, q \in Paths :
       /\ IsDir(rep0, p) /\ ~Exists(src, p)
       /\ q # p /\ IsPrefix(p, q) /\ Exists(rep0, q)
       /\ ~Exists(rep, p) /\ ~Exists(rep, q)
       /\ LoggedAt("dir_deleted", p)

\* C4: No wrongful deletion.  A step removes a replica entry only when no entry
\* exists in the source at the same relative path; so a replica directory whose
\* source directory exists is never removed.  (It holds while every source
\* entry can be stat'ed; below a source directory without the x bit
\* os.path.exists answers False and existing entries' replicas are removed.)
C4_NoWrongfulDeletion ==
  [][\A p \in Paths : (Exists(rep, p) /\ ~Exists(rep', p)) => ~Exists(src, p)]_vars

\* C5: Source-root-missing precondition.  In a cycle started while the source
\* root is not an existing directory, an error is logged and the replica is not
\* mutated: the replica root is not created and no walk is entered.
C5_SourceMissingNoMutation ==
  (cycle >= 1 /\ ~IsDir(src, Root)) =>
     /\ rep = rep0
     /\ Logged("error")
     /\ pc \notin {"propagate", "prune"}
     /\ \A i \in 1..Len(log) : log[i].ev \notin MutationEvents

\* C6: Loop liveness after an error.  run() stops starting cycles only after the
\* external interrupt: whenever the loop has ended, KeyboardInterrupt ended it.
C6_OnlyInterruptStopsLoop == (pc = "stopped") => (raised = "KeyboardInterrupt")

\* C7: Size mismatch always copies.  After a sync_directories call that
\* returned with no failed operation, every source file whose replica file had
\* a different size when the cycle started has been copied over it.
C7_SizeMismatchCopies ==
  (Returned /\ ~failed) =>
     \A p \in Paths :
       (IsFile(src, p) /\ IsFile(rep0, p) /\ GetSize(src, p) # GetSize(rep0, p))
         => (rep[p].data = src[p].data /\ LoggedAt("updated", p))

\* the replica paths a step writes file bytes to
Written(q) == rep'[q] # rep[q] /\ rep'[q].kind = "file"

NoTypeMismatch(sfs, rfs) ==
  \A p \in Paths : (Exists(sfs, p) /\ Exists(rfs, p)) => sfs[p].kind = rfs[p].kind

\* what one cycle makes of the replica entry at p when nothing fails
Expected(sfs, rfs, p) ==
  IF ~Exists(sfs, p) THEN NoNode
  ELSE IF IsDir(sfs, p) THEN DirNode
  ELSE IF ~Exists(rfs, p) THEN FileNode(sfs[p].data, Now)
  ELSE IF TRUE \in IsModified(sfs, rfs, p) /\ sfs[p].data # rfs[p].data
       THEN FileNode(sfs[p].data, Now)
  ELSE rfs[p]

\* exactly one source file is unreadable and nothing else is wrong
OneUnreadableFile(u) ==
  /\ unreadable = {u} /\ IsFile(src, u)
  /\ unsearchable = {} /\ protected = {} /\ ~diskFull /\ repUnsearchable = {}
  /\ IsDir(src, Root)
  /\ NoTypeMismatch(src, rep0)

\* C9: Partial failure isolation in propagate.  With one unreadable source file
\* the call still returns (no exception leaves it, so prune runs), and once it
\* has returned every other entry of the replica is what the cycle makes of it
\* without the unreadable file.
C9_FailureIsolation ==
  \A u \in Paths :
    (cycle >= 1 /\ OneUnreadableFile(u)) =>
       /\ raised \in {"none", "KeyboardInterrupt"}
       /\ Returned => \A p \in Paths \ {u} : rep[p] = Expected(src, rep0, p)

\* C9 witness: the copy of the unreadable file was denied, and a sibling
\* directory was created and a file of that other subtree copied
C9_Witness ==
  /\ Returned
  /\ \E u \in Paths :
       /\ OneUnreadableFile(u)
       /\ Len(u) = 1
       /\ ~Exists(rep, u)
       /\ Logged("error")
       /\ \E p \in Paths \ {u} : Len(p) = 1 /\ IsDir(src, p) /\ LoggedAt("created", p)
       /\ \E p \in Paths \ {u} : Len(p) = 2 /\ LoggedAt("updated", p)

\* C10: Errors never escape a cycle.  Whatever filesystem operation fails during
\* sync_directories, no exception leaves the call: nothing but the external
\* interrupt is ever raised into run().
C10_NoErrorEscapes == failed => raised \in {"none", "KeyboardInterrupt"}

\* exactly one replica entry cannot be removed and nothing else is wrong
OneProtectedEntry(u) ==
  /\ protected = {u}
  /\ unreadable = {} /\ unsearchable = {} /\ ~diskFull /\ repUnsearchable = {}
  /\ IsDir(src, Root)
  /\ NoTypeMismatch(src, rep0)

\* C11: Per-entry failure isolation in prune.  When removing one replica entry
\* is denied, the walk goes on with the other entries of that directory: once
\* the call has returned, the only replica entries left without a source entry
\* are the denied one, what lies below it and the directories that hold it.
C11_PruneIsolation ==
  \A u \in Paths :
    (Returned /\ OneProtectedEntry(u)) =>
       \A p \in Paths :
         (Exists(rep, p) /\ ~Exists(src, p)) => (IsPrefix(u, p) \/ IsPrefix(p, u))

\* the events a step appends to the log
Appended ==
  IF Len(log') > Len(log) THEN SubSeq(log', Len(log) + 1, Len(log')) ELSE << >>

\* C12: Checksum failure suppresses the copy.  A step in which md5sum fails
\* (it logs its error and returns None) attempts no copy: the replica tree is
\* left as it is and the step logs nothing but the md5sum errors.
C12_ChecksumFailureSuppressesCopy ==
  [][ (\E i \in 1..Len(Appended) : Appended[i] = Event("error", "md5sum"))
        => /\ rep' = rep
           /\ \A i \in 1..Len(Appended) : Appended[i] = Event("error", "md5sum") ]_vars

\* p is a directory on one side and a regular file on the other when the
\* cycle starts
TypeMismatch(p) ==
  /\ cycle >= 1 /\ IsDir(src, Root)
  /\ Exists(src, p) /\ Exists(rep0, p)
  /\ src[p].kind # rep0[p].kind

\* C13: Type mismatch does not crash.  With a path that is a directory in one
\* tree and a file in the other, no exception leaves the call and nothing is
\* created inside or below the mismatched replica path.
C13_TypeMismatchSkipped ==
  \A p \in Paths :
    TypeMismatch(p) =>
      /\ raised \in {"none", "KeyboardInterrupt"}
      /\ \A q \in Paths :
           (IsPrefix(p, q) /\ q # p /\ ~Exists(rep0, q)) => ~Exists(rep, q)

\* C14: Copied versus updated.  A file copy is logged as "copied" when the
\* replica path did not exist before the copy and as "updated" when it did.
C14_CopiedVersusUpdated ==
  \A p \in Paths :
    /\ LoggedAt("updated", p) => Exists(rep0, p)
    /\ LoggedAt("copied", p) => ~Exists(rep0, p)
    /\ (Returned /\ ~failed /\ IsFile(src, p) /\ ~Exists(rep0, p))
         => LoggedAt("copied", p)

\* the entries the propagate walk is about to examine
Pending ==
  IF pc = "propagate" /\ stack # << >>
  THEN {Join(Head(stack).dir, n) : n \in Head(stack).items}
  ELSE {}

\* the reference policy of the metadata gate: an absent replica or a size
\* difference means modified, otherwise the modification times decide
ReferenceModified(sfs, rfs, p) ==
  IF ~Exists(rfs, p) THEN TRUE
  ELSE IF GetSize(sfs, p) # GetSize(rfs, p) THEN TRUE
  ELSE GetMTime(sfs, p) > GetMTime(rfs, p)

\* C15: Metadata gate, equal-size branch.  For a source file and a replica
\* file is_modified answers as the reference policy does; with equal sizes it
\* is true exactly when the source modification time is the greater.
C15_MetadataGate ==
  \A p \in Pending :
    (IsFile(src, p) /\ ~IsDir(rep, p)) =>
       IsModified(src, rep, p) = {ReferenceModified(src, rep, p)}

\* the step is the loop iteration of update_items for the source file p, and
\* the loop goes on
ProcessedFile(p) ==
  /\ p \in Pending
  /\ IsFile(Visible(src, unsearchable), p)
  /\ pc' = "propagate"
  /\ stack' = <<[Head(stack) EXCEPT !.items = @ \ {p[Len(p)]}]>> \o Tail(stack)

\* C16: Stat failure is conservative.  When the existence check of the replica
\* path fails inside is_modified, is_modified returns false and the iteration
\* attempts no copy: the replica is left alone and no copy error is logged.
C16_StatFailureConservative ==
  [][ \A p \in Paths :
        (ProcessedFile(p) /\ StatDenied(rep, repUnsearchable, p)) =>
           /\ IsModifiedStat(src, rep, p, repUnsearchable) = {FALSE}
           /\ rep' = rep
           /\ \A i \in 1..Len(Appended) : Appended[i] # Event("error", "PermissionError")
    ]_vars

\* C17: Phase ordering.  Propagation steps delete nothing and pruning steps
\* create and write nothing; every creation and copy is logged before the first
\* deletion; and when pruning starts after a propagation without failures,
\* every source entry that was new to the replica is there with the source's
\* content, so a renamed directory is complete before the old name goes.
C17_PhaseOrdering ==
  [][ /\ pc = "propagate" => \A q \in Paths : Exists(rep, q) => Exists(rep', q)
      /\ pc = "prune" => \A q \in Paths : rep'[q] # rep[q] => rep'[q] = NoNode
      /\ \A i \in 1..Len(log'), j \in 1..Len(log') :
           (log'[i].ev \in {"dir_deleted", "file_deleted"}
              /\ log'[j].ev \in {"created", "copied", "updated"}) => j < i
      /\ (pc' = "prune" /\ ~failed') =>
           \A p \in Paths :
             (Exists(src', p) /\ ~Exists(rep0', p)) =>
                /\ rep'[p].kind = src'[p].kind
                /\ rep'[p].data = src'[p].data ]_vars

\* C17 witness: a source directory was renamed; the cycle created the new name
\* with its content and then deleted the old one
C17_Witness ==
  /\ Returned /\ ~failed
  /\ \E p, q \in Paths :
       /\ Len(p) = 1 /\ Len(q) = 1
       /\ IsDir(rep0, p) /\ ~Exists(src, p) /\ ~Exists(rep, p)
       /\ ~Exists(rep0, q) /\ IsDir(src, q) /\ IsDir(rep, q)
       /\ \E f \in Paths : Parent(f) = q /\ IsFile(src, f) /\ rep[f].data = src[f].data
       /\ \E i, j \in 1..Len(log) :
            i < j /\ log[i] = Event("created", q) /\ log[j] = Event("dir_deleted", p)

\* C20: A vanished source does not wipe the replica.  When the source root is
\* missing or is not a directory, the cycle leaves every replica entry that
\* existed at its start exactly as it was, and the prune walk is never reached.
C20_VanishedSourceKeepsReplica ==
  (cycle >= 1 /\ ~IsDir(src, Root)) =>
     /\ pc \notin {"prune", "sleep"}
     /\ \A p \in Paths : Exists(rep0, p) => rep[p] = rep0[p]

\* C20 witness: the source root is missing, the replica holds a directory and
\* a file, and the cycle has ended on the listing error with the replica intact
C20_Witness ==
  /\ cycle >= 1 /\ ~Exists(src, Root)
  /\ pc = "stopped" /\ raised = "FileNotFoundError"
  /\ \E p, q \in Paths : IsDir(rep0, p) /\ p # Root /\ IsFile(rep0, q)
  /\ rep = rep0

C18_CycleTermination ==
  (pc \in {"propagate", "prune"}) ~> (pc \in {"sleep", "stopped"})

\* C18 witness: a call has returned after another process changed the trees
\* under it and after it changed the replica itself
C18_Witness ==
  /\ Returned
  /\ envSteps = MaxEnvSteps
  /\ \E e \in MutationEvents : Logged(e)

====
